---- MODULE Spec2Model ----
(***************************************************************************)
(* State-machine model of SmartCache<K, T> (src/unnamed/part_003): the     *)
(* three entry mappings, the sentinel-bounded LRU list with its key index, *)
(* the TTL timers, the shared FinalizationRegistry, the wall clock and the *)
(* garbage collector's view of the caller's values.                        *)
(***************************************************************************)
EXTENDS Integers, Sequences, FiniteSets, TLC

\* ------------------------------------------------------------------ bounds
MaxTicks == 3           \* the clock advances at most this many milliseconds
MaxTtl == 2             \* largest ttl passed to set / updateTtl
GcTicks == 2            \* the clock's horizon in the runs with a garbage collector
Epoch == 2              \* Date.now() at construction (must exceed 1 so that
                        \* Date.now() + ttl stays positive, as it is in JS)

\* ---------------------------------------------------------------- universe
Undef == 0 - 1000       \* JS undefined in a numeric slot (ttl, expiresAt, maxSize)
NoTimer == <<"nil", 0>> \* JS undefined in the timeoutId slot of an entry
NotFound == "undefined" \* JS undefined as the result of get
Nil == "nil"            \* a null / undefined key or value handed to set
Null == "null"          \* a null prev / next link of an LRU node
lruHead == "HEAD"       \* the #lruHead sentinel
lruTail == "TAIL"       \* the #lruTail sentinel

StrKeys == {"s1"}       \* typeof key === 'string'
SymKeys == {"y1"}       \* typeof key === 'symbol'
ObjKeys == {"o1"}       \* every other key (objects, numbers, ...)
Keys == StrKeys \cup SymKeys \cup ObjKeys

ObjVals == {"v1", "v2"} \* plain object values, collectable once unreferenced
ArrVals == {"a"}        \* an array value (typeof 'object', Array.isArray)
PrimVals == {"p"}       \* a primitive string value (not a WeakRef target)
Values == ObjVals \cup ArrVals \cup PrimVals

Primitives == {"WeakRef", "FinalizationRegistry"}   \* what an ES2021 host provides

FaultyUnregister == "unregister raises"   \* a FinalizationRegistry supplied by the
                                          \* host whose unregister throws

TtlOpts == {Undef, 0 - 1, 0} \cup (1..MaxTtl)   \* options?.ttl of set
NodeIds == Keys \cup {lruHead, lruTail}

VARIABLES
    stringCache,  \* #stringCache : key -> [value, timeoutId, expiresAt]
    symbolCache,  \* #symbolCache : key -> [value, timeoutId, expiresAt, unregisterToken]
    cache,        \* #cache       : key -> [weakRef, timeoutId, expiresAt, unregisterToken]
    nodes,        \* the LRU nodes: node id -> [prev, next]; the node of key k has id k
    lruMap,       \* #lruMap: the keys that index a node
    currentSize,  \* #currentSize
    defaultTtl,   \* #defaultTtl (Undef when not configured)
    maxSize,      \* #maxSize (Undef when not configured)
    timers,       \* armed setTimeout timers: set of [id, key, due]
    registry,     \* cells of #sharedRegistry made by set: set of [target, key, type, token]
    notes,        \* cells made by getNotificationOnGC: set of [target, key, cleanup],
                  \* in #sharedRegistry (cleanup "none") or in a registry of their own
    tracesHeld,   \* whether the FinalizationRegistry found in global keeps alive what a
                  \* cell's held data references (an ECMAScript engine's does; a
                  \* registry supplied by the host, as in the tests, need not)
    host,         \* what global provides: a subset of Primitives, and with it
                  \* FaultyUnregister where the registry's unregister raises
    now,          \* Date.now()
    held,         \* object values the caller still references strongly
    collected,    \* object values the garbage collector has reclaimed
    last,         \* the last step: [op, key, had, res, n]
    setOrder,     \* keys in insertion order while the history is only sets of new keys
    onlySets,     \* TRUE while every step so far was a successful set of a new key
    touched,      \* stored keys, least recently touched (get hit / set) first
    setBy,        \* key -> [at, opt, val, over, prev]: the set call that stored the key,
                  \* until the key is overwritten, re-armed, deleted, cleared or
                  \* evicted; over is the expiry of the entry with another value
                  \* that this set replaced (Undef if none; followed for string
                  \* and symbol keys); prev is the other value this set
                  \* replaced under an object or symbol key (Nil if none)
    deadSeen,     \* keys for which get reported not-found because the stored value
                  \* was collected, until set is called for the key again
    expiredSeen,  \* keys for which get or has reported not-found because the
                  \* expiry of the stored entry had passed, until set is called
                  \* for the key again
    cleaned,      \* <<key, value>> of the registrations whose cleanup callback ran
    uncaught      \* TRUE once an exception left a notification callback

vars == <<stringCache, symbolCache, cache, nodes, lruMap, currentSize,
          defaultTtl, maxSize, timers, registry, notes, tracesHeld, host, now, held,
          collected, last, setOrder, onlySets, touched, setBy, deadSeen,
          expiredSeen, cleaned, uncaught>>

\* ------------------------------------------------------------ small helpers
Truthy(x) == x # Undef /\ x # 0

Put(f, k, e) == [x \in (DOMAIN f) \cup {k} |-> IF x = k THEN e ELSE f[x]]

Drop(f, k) == [x \in (DOMAIN f) \ {k} |-> f[x]]

DropKeys(f, S) == [x \in (DOMAIN f) \ S |-> f[x]]

Min(S) == CHOOSE x \in S : \A y \in S : x <= y

Max0(x) == IF x > 0 THEN x ELSE 0

EmptyMap == [x \in {} |-> 0]

\* The cache object's mutable fields as one record, so that the private
\* methods can be composed as functions from cache state to cache state.
Cur ==
    [stringCache |-> stringCache, symbolCache |-> symbolCache, cache |-> cache,
     nodes |-> nodes, lruMap |-> lruMap, currentSize |-> currentSize,
     timers |-> timers, registry |-> registry,
     notes |-> notes, tracesHeld |-> tracesHeld, host |-> host]

Install(c) ==
    /\ stringCache' = c.stringCache
    /\ symbolCache' = c.symbolCache
    /\ cache' = c.cache
    /\ nodes' = c.nodes
    /\ lruMap' = c.lruMap
    /\ currentSize' = c.currentSize
    /\ timers' = c.timers
    /\ registry' = c.registry
    /\ notes' = c.notes
    /\ tracesHeld' = c.tracesHeld
    /\ host' = c.host

StoredKeys(c) == (DOMAIN c.stringCache) \cup (DOMAIN c.symbolCache) \cup (DOMAIN c.cache)

StoredCount(c) ==
    Cardinality(DOMAIN c.stringCache) + Cardinality(DOMAIN c.symbolCache)
        + Cardinality(DOMAIN c.cache)

KeyType(key) ==
    IF key \in StrKeys THEN "string"
    ELSE IF key \in SymKeys THEN "symbol"
    ELSE "object"

\* #getEntry: the mapping is chosen by typeof key.
HasEntry(c, key) ==
    CASE KeyType(key) = "string" -> key \in DOMAIN c.stringCache
      [] KeyType(key) = "symbol" -> key \in DOMAIN c.symbolCache
      [] OTHER -> key \in DOMAIN c.cache

GetEntry(c, key) ==
    CASE KeyType(key) = "string" -> c.stringCache[key]
      [] KeyType(key) = "symbol" -> c.symbolCache[key]
      [] OTHER -> c.cache[key]

\* #isExpired
IsExpired(expiresAt, t) == expiresAt # Undef /\ t > expiresAt

\* WeakRef.prototype.deref
Deref(target, coll) == IF target \in coll THEN NotFound ELSE target

\* ------------------------------------------------------------------ timers
UsedTimerIds(c) ==
    {t.id : t \in c.timers}
        \cup {c.stringCache[k].timeoutId : k \in DOMAIN c.stringCache}
        \cup {c.symbolCache[k].timeoutId : k \in DOMAIN c.symbolCache}
        \cup {c.cache[k].timeoutId : k \in DOMAIN c.cache}

\* The handle setTimeout returns: one that no armed timer and no entry uses.
\* Handles are named <<key, n>> after the key the callback captures, with
\* the least n that is free.
FreshTimerId(c, key) ==
    <<key, Min({n \in 1..(Cardinality(UsedTimerIds(c)) + 1) : <<key, n>> \notin UsedTimerIds(c)})>>

\* #createTtlTimeout that arms nothing.
CreateTtlTimeout_NoTimer(c, key, ttl, t) == c

\* #createTtlTimeout: setTimeout(() => this.delete(key), ttl); a delay below
\* one millisecond is due at once.
CreateTtlTimeout(c, key, ttl, t) ==
    [c EXCEPT !.timers = @ \cup {[id |-> FreshTimerId(c, key), key |-> key, due |-> t + Max0(ttl)]}]

\* clearTimeout(entry.timeoutId) guarded by if (entry.timeoutId)
ClearTimeout(c, timeoutId) ==
    IF timeoutId # NoTimer
    THEN [c EXCEPT !.timers = {t \in @ : t.id # timeoutId}]
    ELSE c

\* ---------------------------------------------------------------- registry
UsedTokens(c) ==
    {r.token : r \in c.registry}
        \cup {c.symbolCache[k].unregisterToken : k \in DOMAIN c.symbolCache}
        \cup {c.cache[k].unregisterToken : k \in DOMAIN c.cache}

\* Object(Symbol()): a token distinct from every token in use. Tokens are
\* named <<key, n>> after the key of the entry, with the least n that is free.
FreshToken(c, key) ==
    <<key, Min({n \in 1..(Cardinality(UsedTokens(c)) + 1) : <<key, n>> \notin UsedTokens(c)})>>

Register(c, target, key, type, token) ==
    [c EXCEPT !.registry = @ \cup {[target |-> target, key |-> key, type |-> type, token |-> token]}]

Unregister(c, token) == [c EXCEPT !.registry = {r \in @ : r.token # token}]

\* ---------------------------------------------------------------- LRU list
NoNode == [prev |-> Null, next |-> Null]

\* #removeLRUNode that links the predecessor to the tail sentinel, cutting
\* off the nodes behind the removed one.
RemoveLRUNode_CutsList(c, n) ==
    LET p == c.nodes[n].prev
        n1 == IF p # Null THEN [c.nodes EXCEPT ![p].next = lruTail] ELSE c.nodes
    IN [c EXCEPT !.nodes = [n1 EXCEPT ![lruTail].prev = p]]

\* #removeLRUNode
RemoveLRUNode(c, n) ==
    LET p == c.nodes[n].prev
        x == c.nodes[n].next
        n1 == IF p # Null THEN [c.nodes EXCEPT ![p].next = x] ELSE c.nodes
        n2 == IF x # Null THEN [n1 EXCEPT ![x].prev = p] ELSE n1
    IN [c EXCEPT !.nodes = n2]

\* #addToTail that leaves #lruTail.prev as it was.
AddToTail_StaleTailPrev(c, n) ==
    LET tp == c.nodes[lruTail].prev
        n1 == [c.nodes EXCEPT ![n] = [prev |-> tp, next |-> lruTail]]
        n2 == IF tp # Null THEN [n1 EXCEPT ![tp].next = n] ELSE n1
    IN [c EXCEPT !.nodes = n2]

\* #addToTail
AddToTail(c, n) ==
    LET tp == c.nodes[lruTail].prev
        n1 == [c.nodes EXCEPT ![n] = [prev |-> tp, next |-> lruTail]]
        n2 == IF tp # Null THEN [n1 EXCEPT ![tp].next = n] ELSE n1
        n3 == [n2 EXCEPT ![lruTail].prev = n]
    IN [c EXCEPT !.nodes = n3]

\* #moveToTail
MoveToTail(c, n) == AddToTail(RemoveLRUNode(c, n), n)

\* #updateLRU
UpdateLRU(c, key) ==
    IF key \in c.lruMap
    THEN IF c.nodes[key].next # lruTail THEN MoveToTail(c, key) ELSE c
    ELSE [AddToTail(c, key) EXCEPT !.lruMap = @ \cup {key}]

\* ------------------------------------------------------------------ delete
\* #deleteStringEntry without the clearTimeout call.
DeleteStringEntry_KeepTimer(c, key) == [c EXCEPT !.stringCache = Drop(@, key)]

\* #deleteStringEntry
DeleteStringEntry(c, key) ==
    [ClearTimeout(c, c.stringCache[key].timeoutId)
        EXCEPT !.stringCache = Drop(@, key)]

\* this.#sharedRegistry.unregister(token) raises.
UnregisterThrows(c) == FaultyUnregister \in c.host

\* #deleteSymbolEntry; when unregister raises, the timer is cleared and the
\* entry stays.
DeleteSymbolEntry(c, key) ==
    IF UnregisterThrows(c) THEN ClearTimeout(c, c.symbolCache[key].timeoutId)
    ELSE
    [Unregister(ClearTimeout(c, c.symbolCache[key].timeoutId),
                c.symbolCache[key].unregisterToken)
        EXCEPT !.symbolCache = Drop(@, key)]

\* #deleteEntry without the unregister call.
DeleteEntry_KeepRegistration(c, key) ==
    [ClearTimeout(c, c.cache[key].timeoutId) EXCEPT !.cache = Drop(@, key)]

\* #deleteEntry; when unregister raises, the timer is cleared and the entry
\* stays.
DeleteEntry(c, key) ==
    IF UnregisterThrows(c) THEN ClearTimeout(c, c.cache[key].timeoutId)
    ELSE
    [Unregister(ClearTimeout(c, c.cache[key].timeoutId),
                c.cache[key].unregisterToken)
        EXCEPT !.cache = Drop(@, key)]

\* delete(key) raises: the unregister call of an object-key or symbol-key
\* entry does.
DeleteThrows(c, key) == UnregisterThrows(c) /\ HasEntry(c, key) /\ KeyType(key) # "string"

\* delete(key) without the #currentSize-- of its end.
DeleteSt_NoCount(c, key) ==
    LET c1 == IF key \in c.lruMap
              THEN [RemoveLRUNode(c, key) EXCEPT !.lruMap = @ \ {key},
                                                 !.nodes[key] = NoNode]
              ELSE c
    IN IF HasEntry(c1, key)
       THEN CASE KeyType(key) = "string" -> DeleteStringEntry(c1, key)
              [] KeyType(key) = "symbol" -> DeleteSymbolEntry(c1, key)
              [] OTHER -> DeleteEntry(c1, key)
       ELSE c1

\* delete(key): the state it leaves, also when it raises (the node is then
\* unlinked, the entry and #currentSize are not touched). An unlinked node
\* is garbage: its links are forgotten.
DeleteSt(c, key) ==
    LET c1 == IF key \in c.lruMap
              THEN [RemoveLRUNode(c, key) EXCEPT !.lruMap = @ \ {key},
                                                 !.nodes[key] = NoNode]
              ELSE c
        c2 == IF HasEntry(c1, key)
              THEN CASE KeyType(key) = "string" -> DeleteStringEntry(c1, key)
                     [] KeyType(key) = "symbol" -> DeleteSymbolEntry(c1, key)
                     [] OTHER -> DeleteEntry(c1, key)
              ELSE c1
    IN IF HasEntry(c, key) /\ ~DeleteThrows(c, key)
       THEN [c2 EXCEPT !.currentSize = @ - 1]
       ELSE c2

\* delete(key): the boolean it returns (when it does not raise).
DeleteRes(c, key) == HasEntry(c, key)

\* #evictLRU
EvictLRU(c) ==
    IF c.nodes[lruHead].next = lruTail THEN c
    ELSE IF c.nodes[lruHead].next # Null THEN DeleteSt(c, c.nodes[lruHead].next)
    ELSE c

\* --------------------------------------------------------------------- set
\* #validateInputs
ValidateInputsThrows(key, value) == key = Nil \/ value = Nil

\* new WeakRef(value) raises a TypeError for a primitive value.
WeakRefThrows(value) == value \in PrimVals

\* typeof value === 'object' && value !== null
IsObjectValue(value) == value \in ObjVals \cup ArrVals

\* set whose teardown of the entry already under the key leaves that
\* entry's timer armed.
SetPrepare_KeepOldTimer(c, key, mSize) ==
    LET c1 == IF HasEntry(c, key)
              THEN UpdateLRU([DeleteSt(c, key) EXCEPT !.timers = c.timers], key)
              ELSE c
    IN IF Truthy(mSize) /\ c1.currentSize >= mSize THEN EvictLRU(c1) ELSE c1

\* #evictLRU raises: the delete of the least recently used key does.
EvictThrows(c) ==
    /\ c.nodes[lruHead].next \notin {lruTail, Null}
    /\ DeleteThrows(c, c.nodes[lruHead].next)

\* if (this.#maxSize && this.#currentSize >= this.#maxSize) raises: the
\* eviction does.
EvictIfFullThrows(c, mSize) == Truthy(mSize) /\ c.currentSize >= mSize /\ EvictThrows(c)

\* if (this.#maxSize && this.#currentSize >= this.#maxSize) this.#evictLRU()
EvictIfFull(c, mSize) == IF Truthy(mSize) /\ c.currentSize >= mSize THEN EvictLRU(c) ELSE c

\* #cleanupExistingEntry(key) and #updateLRU(key) when the key has an entry;
\* the bump is not reached when the delete raises.
Teardown(c, key) ==
    IF ~HasEntry(c, key) THEN c
    ELSE IF DeleteThrows(c, key) THEN DeleteSt(c, key)
    ELSE UpdateLRU(DeleteSt(c, key), key)

\* set raises before the entry is built: in the teardown of the entry
\* already under the key, or else in the eviction.
SetPrepareThrows(c, key, mSize) ==
    DeleteThrows(c, key) \/ EvictIfFullThrows(Teardown(c, key), mSize)

\* set, before the entry is built: teardown of the entry already under the
\* key with its recency bump, then the capacity check; it stops where a
\* delete raises.
SetPrepare(c, key, mSize) ==
    EvictIfFull(Teardown(c, key), IF DeleteThrows(c, key) THEN Undef ELSE mSize)

\* options?.ttl || this.#defaultTtl: a ttl of 0 falls back to the default.
EffectiveTtl_Or(ttlOpt, dTtl) == IF Truthy(ttlOpt) THEN ttlOpt ELSE dTtl

\* this.#defaultTtl ?? options?.ttl: the default wins over the option.
EffectiveTtl_DefaultFirst(ttlOpt, dTtl) == IF dTtl # Undef THEN dTtl ELSE ttlOpt

\* options?.ttl alone: the default is ignored.
EffectiveTtl_OptionOnly(ttlOpt, dTtl) == ttlOpt

\* options?.ttl ?? this.#defaultTtl
EffectiveTtl(ttlOpt, dTtl) == IF ttlOpt # Undef THEN ttlOpt ELSE dTtl

\* ttl ? Date.now() + ttl : undefined
ExpiresAtOf(ttl, t) == IF Truthy(ttl) THEN t + ttl ELSE Undef

\* set(key, value, options) raises: validation, or in the object branch the
\* name WeakRef being undefined or its constructor rejecting the value.
SetThrows(key, value) ==
    \/ ValidateInputsThrows(key, value)
    \/ SetPrepareThrows(Cur, key, maxSize)
    \/ (KeyType(key) = "object" /\ value \notin ArrVals
            /\ ("WeakRef" \notin host \/ WeakRefThrows(value)))

\* set, from the timer on: the entry is built with its timer and stored in
\* the mapping of its key type; nothing of it runs when set raised before.
StoreEntry(c2, threw, key, value, ttl, t) ==
    IF threw THEN c2
    ELSE
    LET expiresAt == ExpiresAtOf(ttl, t)
        timeoutId == IF Truthy(ttl) THEN FreshTimerId(c2, key) ELSE NoTimer
        c3 == IF Truthy(ttl) THEN CreateTtlTimeout(c2, key, ttl, t) ELSE c2
        token == FreshToken(c3, key)
    IN CASE KeyType(key) = "string" ->
              [c3 EXCEPT !.stringCache =
                             Put(@, key, [value |-> value, timeoutId |-> timeoutId,
                                          expiresAt |-> expiresAt]),
                         !.currentSize = @ + 1]
         [] KeyType(key) = "symbol" ->
              LET c4 == [c3 EXCEPT !.symbolCache =
                                       Put(@, key, [value |-> value, timeoutId |-> timeoutId,
                                                    expiresAt |-> expiresAt,
                                                    unregisterToken |-> token])]
                  c5 == IF IsObjectValue(value)
                        THEN Register(c4, value, key, "symbol", token)
                        ELSE c4
              IN [c5 EXCEPT !.currentSize = @ + 1]
         [] OTHER ->
              IF value \in ArrVals \/ "WeakRef" \notin c2.host \/ WeakRefThrows(value) THEN c2
              ELSE LET c4 == [c3 EXCEPT !.cache =
                                            Put(@, key, [weakRef |-> value, timeoutId |-> timeoutId,
                                                         expiresAt |-> expiresAt,
                                                         unregisterToken |-> token])]
                   IN [Register(c4, value, key, "object", token)
                          EXCEPT !.currentSize = @ + 1]

\* set(key, value, options): the state it leaves (also when it raises).
SetSt(c, key, value, ttlOpt, t, dTtl, mSize) ==
    IF ValidateInputsThrows(key, value) THEN c
    ELSE StoreEntry(SetPrepare(c, key, mSize), SetPrepareThrows(c, key, mSize),
                    key, value, EffectiveTtl(ttlOpt, dTtl), t)

\* --------------------------------------------------------------------- get
\* get(key): what it returns.
GetRes(c, key, t, coll) ==
    IF ~HasEntry(c, key) THEN NotFound
    ELSE LET entry == GetEntry(c, key)
         IN IF Truthy(entry.expiresAt) /\ IsExpired(entry.expiresAt, t) THEN NotFound
            ELSE IF KeyType(key) = "object" THEN Deref(entry.weakRef, coll)
            ELSE entry.value

\* get(key) that reports a dead weak handle but leaves the entry in place.
GetSt_KeepDead(c, key, t, coll) ==
    IF ~HasEntry(c, key) THEN c
    ELSE LET entry == GetEntry(c, key)
         IN IF Truthy(entry.expiresAt) /\ IsExpired(entry.expiresAt, t)
            THEN DeleteSt(c, key)
            ELSE UpdateLRU(c, key)

\* get(key): the state it leaves.
GetSt(c, key, t, coll) ==
    IF ~HasEntry(c, key) THEN c
    ELSE LET entry == GetEntry(c, key)
         IN IF Truthy(entry.expiresAt) /\ IsExpired(entry.expiresAt, t)
            THEN DeleteSt(c, key)
            ELSE LET c1 == UpdateLRU(c, key)
                 IN IF KeyType(key) = "object" /\ Deref(entry.weakRef, coll) = NotFound
                    THEN DeleteSt(c1, key)
                    ELSE c1

\* get(key) raises: the delete of the expired or dead entry does.
GetThrows(c, key, t, coll) ==
    HasEntry(c, key) /\ GetRes(c, key, t, coll) = NotFound /\ DeleteThrows(c, key)

\* --------------------------------------------------------------------- has
\* has(key) that answers true for a key without an entry.
HasRes_MissingIsTrue(c, key, t, coll) ==
    IF ~HasEntry(c, key) THEN TRUE
    ELSE LET entry == GetEntry(c, key)
         IN IF KeyType(key) \in {"string", "symbol"}
            THEN ~IsExpired(entry.expiresAt, t)
            ELSE ~IsExpired(entry.expiresAt, t) /\ Deref(entry.weakRef, coll) # NotFound

HasRes(c, key, t, coll) ==
    IF ~HasEntry(c, key) THEN FALSE
    ELSE LET entry == GetEntry(c, key)
         IN IF KeyType(key) \in {"string", "symbol"}
            THEN ~IsExpired(entry.expiresAt, t)
            ELSE ~IsExpired(entry.expiresAt, t) /\ Deref(entry.weakRef, coll) # NotFound

\* -------------------------------------------------------------------- size
\* The keys the size getter (and keys()) finds expired or dead.
DeadKeys(c, t, coll) ==
    {k \in DOMAIN c.cache :
        IsExpired(c.cache[k].expiresAt, t) \/ Deref(c.cache[k].weakRef, coll) = NotFound}
    \cup {k \in DOMAIN c.symbolCache : IsExpired(c.symbolCache[k].expiresAt, t)}
    \cup {k \in DOMAIN c.stringCache : IsExpired(c.stringCache[k].expiresAt, t)}

\* The place of a key in deadKeys: object keys are pushed first, then symbol
\* keys, then string keys.
DeadRank(k) == IF KeyType(k) = "object" THEN 1 ELSE IF KeyType(k) = "symbol" THEN 2 ELSE 3

RECURSIVE DeleteAll(_, _)
\* deadKeys.forEach(key => this.delete(key)), ending at a delete that raises
DeleteAll(c, ks) ==
    IF ks = {} THEN c
    ELSE LET k == CHOOSE x \in ks : \A y \in ks : DeadRank(x) <= DeadRank(y)
         IN DeleteAll(DeleteSt(c, k), IF DeleteThrows(c, k) THEN {} ELSE ks \ {k})

\* The size getter and keys() raise: the delete of a dead key does.
SweepThrows(c, t, coll) == \E k \in DeadKeys(c, t, coll) : DeleteThrows(c, k)

\* A size getter that counts the live entries and deletes nothing.
SizeSt_NoPurge(c, t, coll) == c

SizeRes(c, t, coll) == StoredCount(c) - Cardinality(DeadKeys(c, t, coll))

SizeSt(c, t, coll) == DeleteAll(c, DeadKeys(c, t, coll))

\* -------------------------------------------------------------------- keys
RECURSIVE SeqOf(_)
\* The keys of one Map in iteration order (the universe has one key of each
\* category, so a Map lists at most one).
SeqOf(S) ==
    IF S = {} THEN <<>>
    ELSE LET k == CHOOSE x \in S : TRUE
         IN <<k>> \o SeqOf(S \ {k})

\* keys() that lists the object keys without resolving their weak handles.
KeysRes_HandlesUnchecked(c, t, coll) ==
    SeqOf({k \in DOMAIN c.cache : ~IsExpired(c.cache[k].expiresAt, t)})
        \o SeqOf({k \in DOMAIN c.symbolCache : ~IsExpired(c.symbolCache[k].expiresAt, t)})
        \o SeqOf({k \in DOMAIN c.stringCache : ~IsExpired(c.stringCache[k].expiresAt, t)})

\* keys(): the array it returns, object keys first, then symbol keys, then
\* string keys.
KeysRes(c, t, coll) ==
    SeqOf({k \in DOMAIN c.cache :
              ~IsExpired(c.cache[k].expiresAt, t) /\ Deref(c.cache[k].weakRef, coll) # NotFound})
        \o SeqOf({k \in DOMAIN c.symbolCache : ~IsExpired(c.symbolCache[k].expiresAt, t)})
        \o SeqOf({k \in DOMAIN c.stringCache : ~IsExpired(c.stringCache[k].expiresAt, t)})

\* keys(): the state it leaves.
KeysSt(c, t, coll) == DeleteAll(c, DeadKeys(c, t, coll))

\* ------------------------------------------------------------------- clear
\* clear() without the clearTimeout calls.
ClearSt_KeepTimers(c) ==
    [stringCache |-> EmptyMap, symbolCache |-> EmptyMap, cache |-> EmptyMap,
     nodes |-> [n \in NodeIds |->
                  IF n = lruHead THEN [prev |-> c.nodes[lruHead].prev, next |-> lruTail]
                  ELSE IF n = lruTail THEN [prev |-> lruHead, next |-> c.nodes[lruTail].next]
                  ELSE NoNode],
     lruMap |-> {},
     currentSize |-> 0,
     timers |-> c.timers,
     registry |-> {r \in c.registry :
                     r.token \notin ({c.cache[k].unregisterToken : k \in DOMAIN c.cache}
                         \cup {c.symbolCache[k].unregisterToken : k \in DOMAIN c.symbolCache})},
     notes |-> c.notes,
     tracesHeld |-> c.tracesHeld,
     host |-> c.host]

\* clear() raises: the first unregister call does.
ClearThrows(c) == UnregisterThrows(c) /\ (DOMAIN c.cache) \cup (DOMAIN c.symbolCache) # {}

\* clear(); when unregister raises, it stops in its first loop iteration
\* that unregisters, that entry's timer cleared (a Map of the universe holds
\* at most one key).
ClearSt(c) ==
    IF ClearThrows(c)
    THEN IF DOMAIN c.cache # {}
         THEN ClearTimeout(c, c.cache[CHOOSE k \in DOMAIN c.cache : TRUE].timeoutId)
         ELSE ClearTimeout(c, c.symbolCache[CHOOSE k \in DOMAIN c.symbolCache : TRUE].timeoutId)
    ELSE
    [stringCache |-> EmptyMap, symbolCache |-> EmptyMap, cache |-> EmptyMap,
     nodes |-> [n \in NodeIds |->
                  IF n = lruHead THEN [prev |-> c.nodes[lruHead].prev, next |-> lruTail]
                  ELSE IF n = lruTail THEN [prev |-> lruHead, next |-> c.nodes[lruTail].next]
                  ELSE NoNode],
     lruMap |-> {},
     currentSize |-> 0,
     timers |-> {t \in c.timers :
                   t.id \notin ({c.cache[k].timeoutId : k \in DOMAIN c.cache}
                       \cup {c.symbolCache[k].timeoutId : k \in DOMAIN c.symbolCache}
                       \cup {c.stringCache[k].timeoutId : k \in DOMAIN c.stringCache})},
     registry |-> {r \in c.registry :
                     r.token \notin ({c.cache[k].unregisterToken : k \in DOMAIN c.cache}
                         \cup {c.symbolCache[k].unregisterToken : k \in DOMAIN c.symbolCache})},
     notes |-> c.notes,
     tracesHeld |-> c.tracesHeld,
     host |-> c.host]

\* --------------------------------------------------------------- updateTtl
UpdateTtlRes(c, key) ==
    key \in DOMAIN c.cache \/ key \in DOMAIN c.symbolCache \/ key \in DOMAIN c.stringCache

\* updateTtl(key, ttl) that arms the new timer without clearing the old one.
UpdateTtlSt_KeepOldTimer(c, key, ttl, t) ==
    IF ~UpdateTtlRes(c, key) THEN c
    ELSE LET which == IF key \in DOMAIN c.cache THEN "cache"
                      ELSE IF key \in DOMAIN c.symbolCache THEN "symbolCache"
                      ELSE "stringCache"
             id == FreshTimerId(c, key)
             c2 == CreateTtlTimeout(c, key, ttl, t)
         IN [c2 EXCEPT ![which][key].timeoutId = id,
                       ![which][key].expiresAt = t + ttl]

\* updateTtl(key, ttl): the state it leaves.
UpdateTtlSt(c, key, ttl, t) ==
    IF ~UpdateTtlRes(c, key) THEN c
    ELSE LET which == IF key \in DOMAIN c.cache THEN "cache"
                      ELSE IF key \in DOMAIN c.symbolCache THEN "symbolCache"
                      ELSE "stringCache"
             entry == c[which][key]
             c1 == [ClearTimeout(c, entry.timeoutId) EXCEPT ![which][key].timeoutId = NoTimer]
             id == FreshTimerId(c1, key)
             c2 == CreateTtlTimeout(c1, key, ttl, t)
         IN [c2 EXCEPT ![which][key].timeoutId = id,
                       ![which][key].expiresAt = t + ttl]

\* ------------------------------------------------------------------ getTtl
NoTtl == <<Undef, Undef>>   \* the null getTtl returns

\* getTtl(key) without Math.max: the remaining time as a plain difference.
GetTtlRes_NoClamp(c, key, t) ==
    IF ~UpdateTtlRes(c, key) THEN NoTtl
    ELSE LET entry == IF key \in DOMAIN c.cache THEN c.cache[key]
                      ELSE IF key \in DOMAIN c.symbolCache THEN c.symbolCache[key]
                      ELSE c.stringCache[key]
         IN IF ~Truthy(entry.expiresAt) THEN NoTtl
            ELSE <<entry.expiresAt - t, entry.expiresAt>>

\* getTtl(key): <<ttl, expiresAt>> of the object it returns, or NoTtl.
GetTtlRes(c, key, t) ==
    IF ~UpdateTtlRes(c, key) THEN NoTtl
    ELSE LET entry == IF key \in DOMAIN c.cache THEN c.cache[key]
                      ELSE IF key \in DOMAIN c.symbolCache THEN c.symbolCache[key]
                      ELSE c.stringCache[key]
         IN IF ~Truthy(entry.expiresAt) THEN NoTtl
            ELSE <<Max0(entry.expiresAt - t), entry.expiresAt>>

\* -------------------------------------------------------- getNotificationOnGC
Cleanups == {"none", "ok", "throws"}  \* no cleanup option, one that returns, one that throws

\* getNotificationOnGC raises: validation, or register() for a primitive target.
GetNotificationOnGCThrows(key, value) ==
    ValidateInputsThrows(key, value) \/ value \in PrimVals

\* getNotificationOnGC({ key, value, cleanup }): the state it leaves. The
\* cell goes to #sharedRegistry, or with a cleanup to a registry created for
\* this call and referenced by nothing once the call returns.
GetNotificationOnGCSt(c, key, value, cleanup) ==
    IF GetNotificationOnGCThrows(key, value) THEN c
    ELSE [c EXCEPT !.notes = @ \cup {[target |-> value, key |-> key, cleanup |-> cleanup]}]

\* #handleFinalization
HandleFinalization(c, key) == DeleteSt(c, key)

\* A registry runs its callback for a cell of getNotificationOnGC: the shared
\* registry's callback is #handleFinalization, the other's is the cleanup.
NotifySt(c, cell) ==
    LET c1 == [c EXCEPT !.notes = @ \ {cell}]
    IN IF cell.cleanup = "none" THEN HandleFinalization(c1, cell.key) ELSE c1

\* ------------------------------------------------- garbage collector's view
\* What the cache references strongly with a registration made as
\* register(value, { key, value, type }), the held data naming the target.
StrongRefs_HeldValue(c) ==
    {c.stringCache[k].value : k \in DOMAIN c.stringCache}
        \cup {c.symbolCache[k].value : k \in DOMAIN c.symbolCache}
        \cup DOMAIN c.stringCache \cup DOMAIN c.symbolCache \cup DOMAIN c.cache
        \cup c.lruMap
        \cup {cell.key : cell \in c.registry} \cup {cell.target : cell \in c.registry}
        \cup {tm.key : tm \in c.timers}
        \cup {cell.key : cell \in c.notes}
        \cup (IF c.tracesHeld THEN {cell.target : cell \in c.notes} ELSE {})

\* What the cache would reference strongly if string-key and symbol-key
\* entries held their values weakly as object-key entries do.
StrongRefs_NoPlainValues(c) ==
    DOMAIN c.stringCache \cup DOMAIN c.symbolCache \cup DOMAIN c.cache
        \cup c.lruMap
        \cup {cell.key : cell \in c.registry}
        \cup {tm.key : tm \in c.timers}
        \cup {cell.key : cell \in c.notes}
        \cup (IF c.tracesHeld THEN {cell.target : cell \in c.notes} ELSE {})

\* What the cache references strongly: the value field of string-key and
\* symbol-key entries, the keys of the three Maps and of #lruMap, the key in
\* a registry cell's held data { key, type } and the key a timer closure
\* captured. An object-key entry holds its value through a WeakRef; a
\* registry holds its targets and tokens weakly. The held data of a cell
\* made by getNotificationOnGC is { key, value, type }: where the registry
\* keeps held data alive, it keeps that cell's own target alive.
StrongRefs(c) ==
    {c.stringCache[k].value : k \in DOMAIN c.stringCache}
        \cup {c.symbolCache[k].value : k \in DOMAIN c.symbolCache}
        \cup DOMAIN c.stringCache \cup DOMAIN c.symbolCache \cup DOMAIN c.cache
        \cup c.lruMap
        \cup {cell.key : cell \in c.registry}
        \cup {tm.key : tm \in c.timers}
        \cup {cell.key : cell \in c.notes}
        \cup (IF c.tracesHeld THEN {cell.target : cell \in c.notes} ELSE {})

\* A value the collector may reclaim: no reference from the caller, none from
\* the cache.
Collectable(c, v, h, coll) == v \in ObjVals /\ v \notin h /\ v \notin coll /\ v \notin StrongRefs(c)

\* --------------------------------------------------------- history variables
RECURSIVE Without(_, _)
Without(seq, S) ==
    IF seq = <<>> THEN <<>>
    ELSE IF seq[1] \in S THEN Without(Tail(seq), S)
    ELSE <<seq[1]>> \o Without(Tail(seq), S)

Range(seq) == {seq[i] : i \in 1..Len(seq)}

\* touched after a step: keys no longer stored drop out; a get that returned
\* a value or a set that stored the key moves it to the end.
Touch(seq, key, hit, stored) ==
    LET kept == Without(seq, (Keys \ stored) \cup (IF hit THEN {key} ELSE {}))
    IN IF hit /\ key \in stored THEN Append(kept, key) ELSE kept

\* get(key) finds an unexpired object-key entry whose weak handle is dead.
DeadHit(c, key, t, coll) ==
    /\ KeyType(key) = "object"
    /\ HasEntry(c, key)
    /\ ~(c.cache[key].expiresAt # Undef /\ t > c.cache[key].expiresAt)
    /\ c.cache[key].weakRef \in coll

\* get(key) or has(key) finds an entry whose expiry has passed: get tests
\* entry.expiresAt && this.#isExpired(entry.expiresAt), has tests
\* this.#isExpired(entry.expiresAt).
ExpiredHit(op, c, key, t) ==
    /\ op \in {"get", "has"}
    /\ HasEntry(c, key)
    /\ IsExpired(GetEntry(c, key).expiresAt, t)
    /\ op = "get" => Truthy(GetEntry(c, key).expiresAt)

\* The expiry of the entry stored under a string or symbol key that a set
\* of value val replaces, when that entry holds another value.
Replaced(c, key, val) ==
    IF KeyType(key) = "object" \/ ~HasEntry(c, key) THEN Undef
    ELSE IF GetEntry(c, key).value = val THEN Undef
    ELSE GetEntry(c, key).expiresAt

\* The value of the entry stored under an object or symbol key that a set
\* of another value val replaces.
ReplacedValue(c, key, val) ==
    IF KeyType(key) = "string" \/ ~HasEntry(c, key) THEN Nil
    ELSE LET old == IF KeyType(key) = "object" THEN c.cache[key].weakRef
                    ELSE c.symbolCache[key].value
         IN IF old = val THEN Nil ELSE old

\* The history variables after a step op(key, val, ttl) that returned res
\* (and n, for size) and left the cache in state c.
\*   last     : the step; had tells whether an entry was stored under key;
\*   touched  : followed only for a cache with a capacity;
\*   onlySets, setOrder : followed only for a cache with a capacity; a step
\*              other than a set of a new key ends them;
\*   setBy, deadSeen, expiredSeen : see the variables;
\*   cleaned, uncaught : a step "cleanup" is a cleanup callback running for the
\*              registration of val under key, res telling whether it threw.
Record(op, key, val, ttl, res, n, c) ==
    LET hit == (op = "get" /\ res # NotFound) \/ (op = "set" /\ res = "ok")
        fresh == /\ Truthy(maxSize) /\ op = "set" /\ res = "ok" /\ onlySets
                 /\ key \notin StoredKeys(Cur) /\ key \notin Range(setOrder)
    IN /\ last' = [op |-> op, key |-> key, had |-> key \in StoredKeys(Cur),
                   res |-> res, n |-> n]
       /\ touched' = IF Truthy(maxSize) THEN Touch(touched, key, hit, StoredKeys(c))
                     ELSE <<>>
       /\ onlySets' = fresh
       /\ setOrder' = IF fresh THEN Append(setOrder, key) ELSE <<>>
       /\ setBy' =
            CASE op = "set" /\ key # Nil /\ val # Nil ->
                   LET kept == DropKeys(setBy, {key} \cup (StoredKeys(Cur) \ StoredKeys(c)))
                   IN IF res = "ok" /\ key \in StoredKeys(c)
                      THEN Put(kept, key, [at |-> now, opt |-> ttl, val |-> val,
                                           over |-> Replaced(Cur, key, val),
                                           prev |-> ReplacedValue(Cur, key, val)])
                      ELSE kept
              [] op = "delete" -> DropKeys(setBy, {key})
              [] op = "clear" -> EmptyMap
              [] op = "updateTtl" /\ res = "true" -> DropKeys(setBy, {key})
              [] OTHER -> setBy
       /\ deadSeen' =
            CASE op = "get" /\ DeadHit(Cur, key, now, collected) -> deadSeen \cup {key}
              [] op = "set" -> deadSeen \ {key}
              [] OTHER -> deadSeen
       /\ expiredSeen' =
            CASE ExpiredHit(op, Cur, key, now) -> expiredSeen \cup {key}
              [] op = "set" -> expiredSeen \ {key}
              [] OTHER -> expiredSeen
       /\ cleaned' = IF op = "cleanup" THEN cleaned \cup {<<key, val>>} ELSE cleaned
       /\ uncaught' = (uncaught \/ (op = "cleanup" /\ res = "throw"))

Bool(b) == IF b THEN "true" ELSE "false"

\* ----------------------------------------------------------------- actions
\* The constructor returned an instance: it throws, as the initializer of
\* #sharedRegistry does, unless global.FinalizationRegistry is a function.
Instance == "FinalizationRegistry" \in host

\* Construction: new SmartCache({ defaultTtl, maxSize }), the caller holding
\* the object values vals it is going to store, with the FinalizationRegistry
\* found in global being of one of the given kinds.
ConstructOn(dTtls, mSizes, vals, engines, hosts) ==
    /\ host \in hosts
    /\ stringCache = EmptyMap
    /\ symbolCache = EmptyMap
    /\ cache = EmptyMap
    /\ nodes = [n \in NodeIds |->
                  IF n = lruHead THEN [prev |-> Null, next |-> lruTail]
                  ELSE IF n = lruTail THEN [prev |-> lruHead, next |-> Null]
                  ELSE NoNode]
    /\ lruMap = {}
    /\ currentSize = 0
    /\ defaultTtl \in dTtls
    /\ maxSize \in mSizes
    /\ timers = {}
    /\ registry = {}
    /\ now = Epoch
    /\ held = vals \cap ObjVals
    /\ collected = {}
    /\ last = [op |-> "new", key |-> Nil, had |-> FALSE,
               res |-> IF Instance THEN "ok" ELSE "throw", n |-> 0]
    /\ setOrder = <<>>
    /\ onlySets = TRUE
    /\ touched = <<>>
    /\ setBy = EmptyMap
    /\ deadSeen = {}
    /\ expiredSeen = {}
    /\ notes = {}
    /\ tracesHeld \in engines
    /\ cleaned = {}
    /\ uncaught = FALSE

\* Construction on a host that provides both primitives.
Construct(dTtls, mSizes, vals, engines) ==
    ConstructOn(dTtls, mSizes, vals, engines, {Primitives})

\* Construction in an ECMAScript engine.
InitWith(dTtls, mSizes, vals) == Construct(dTtls, mSizes, vals, {TRUE})

\* cache.set(key, value, { ttl: ttlOpt }) with a value the caller references.
Set(key, value, ttlOpt) ==
    /\ value \in ObjVals => value \in held
    /\ LET c == SetSt(Cur, key, value, ttlOpt, now, defaultTtl, maxSize)
       IN /\ Install(c)
          /\ Record("set", key, value, ttlOpt,
                    IF SetThrows(key, value) THEN "throw" ELSE "ok", 0, c)
    /\ UNCHANGED <<defaultTtl, maxSize, now, held, collected>>

\* cache.get(key); the caller keeps the returned value or lets go of it.
Get(key, keep) ==
    /\ LET c == GetSt(Cur, key, now, collected)
           res == IF GetThrows(Cur, key, now, collected) THEN "throw"
                  ELSE GetRes(Cur, key, now, collected)
       IN /\ Install(c)
          /\ Record("get", key, Nil, Undef, res, 0, c)
          /\ held' = IF keep /\ res \in ObjVals THEN held \cup {res} ELSE held
    /\ UNCHANGED <<defaultTtl, maxSize, now, collected>>

\* cache.has(key)
Has(key) ==
    /\ Record("has", key, Nil, Undef, Bool(HasRes(Cur, key, now, collected)), 0, Cur)
    /\ UNCHANGED <<stringCache, symbolCache, cache, nodes, lruMap, currentSize,
                   notes, tracesHeld, host,
                   timers, registry, defaultTtl, maxSize, now, held, collected>>

\* cache.delete(key)
Delete(key) ==
    /\ Install(DeleteSt(Cur, key))
    /\ Record("delete", key, Nil, Undef,
              IF DeleteThrows(Cur, key) THEN "throw" ELSE Bool(DeleteRes(Cur, key)),
              0, DeleteSt(Cur, key))
    /\ UNCHANGED <<defaultTtl, maxSize, now, held, collected>>

\* cache.clear(); last.n is the number of entries it removed.
Clear ==
    /\ Install(ClearSt(Cur))
    /\ Record("clear", Nil, Nil, Undef, IF ClearThrows(Cur) THEN "throw" ELSE "ok",
              StoredCount(Cur), ClearSt(Cur))
    /\ UNCHANGED <<defaultTtl, maxSize, now, held, collected>>

\* cache.size
Size ==
    /\ Install(SizeSt(Cur, now, collected))
    /\ Record("size", Nil, Nil, Undef,
              IF SweepThrows(Cur, now, collected) THEN "throw" ELSE "ok",
              SizeRes(Cur, now, collected),
              SizeSt(Cur, now, collected))
    /\ UNCHANGED <<defaultTtl, maxSize, now, held, collected>>

\* cache.keys(); last.n is the length of the array it returns.
keys ==
    /\ Install(KeysSt(Cur, now, collected))
    /\ Record("keys", Nil, Nil, Undef,
              IF SweepThrows(Cur, now, collected) THEN "throw" ELSE "ok",
              Len(KeysRes(Cur, now, collected)),
              KeysSt(Cur, now, collected))
    /\ UNCHANGED <<defaultTtl, maxSize, now, held, collected>>

\* cache.updateTtl(key, ttl); last.n is the ttl passed.
UpdateTtl(key, ttl) ==
    /\ Install(UpdateTtlSt(Cur, key, ttl, now))
    /\ Record("updateTtl", key, Nil, ttl, Bool(UpdateTtlRes(Cur, key)), ttl,
              UpdateTtlSt(Cur, key, ttl, now))
    /\ UNCHANGED <<defaultTtl, maxSize, now, held, collected>>

\* cache.getTtl(key); last.n is the remaining ttl it reports (0 with null).
GetTtl(key) ==
    /\ LET res == GetTtlRes(Cur, key, now)
       IN Record("getTtl", key, Nil, Undef, IF res = NoTtl THEN "null" ELSE "ok",
                 IF res = NoTtl THEN 0 ELSE res[1], Cur)
    /\ UNCHANGED <<stringCache, symbolCache, cache, nodes, lruMap, currentSize,
                   notes, tracesHeld, host,
                   timers, registry, defaultTtl, maxSize, now, held, collected>>

\* The callback of an armed timer runs, no earlier than its due time.
TimerFire(tm) ==
    /\ tm \in timers
    /\ tm.due <= now
    /\ LET c == DeleteSt([Cur EXCEPT !.timers = @ \ {tm}], tm.key)
       IN /\ Install(c)
          /\ Record("timer", tm.key, Nil, Undef,
                    IF DeleteThrows(Cur, tm.key) THEN "throw" ELSE "ok", 0, c)
    /\ UNCHANGED <<defaultTtl, maxSize, now, held, collected>>

\* One millisecond passes, up to the horizon of the run.
Tick(horizon) ==
    /\ now < Epoch + horizon
    /\ now' = now + 1
    /\ Record("tick", Nil, Nil, Undef, "ok", 0, Cur)
    /\ UNCHANGED <<stringCache, symbolCache, cache, nodes, lruMap, currentSize,
                   notes, tracesHeld, host,
                   timers, registry, defaultTtl, maxSize, held, collected>>

\* The caller drops its last strong reference to a value.
DropRef(v) ==
    /\ v \in held
    /\ held' = held \ {v}
    /\ Record("drop", Nil, Nil, Undef, "ok", 0, Cur)
    /\ UNCHANGED <<stringCache, symbolCache, cache, nodes, lruMap, currentSize,
                   notes, tracesHeld, host,
                   timers, registry, defaultTtl, maxSize, now, collected>>

\* The garbage collector reclaims a value nothing references strongly.
Collect(v) ==
    /\ Collectable(Cur, v, held, collected)
    /\ collected' = collected \cup {v}
    /\ Record("collect", Nil, Nil, Undef, "ok", 0, Cur)
    /\ UNCHANGED <<stringCache, symbolCache, cache, nodes, lruMap, currentSize,
                   notes, tracesHeld, host,
                   timers, registry, defaultTtl, maxSize, now, held>>

\* The shared registry's callback runs for a cell whose target was reclaimed:
\* #handleFinalization.
Finalize(cell) ==
    /\ cell \in registry
    /\ cell.target \in collected
    /\ LET c == DeleteSt([Cur EXCEPT !.registry = @ \ {cell}], cell.key)
       IN /\ Install(c)
          /\ Record("finalize", cell.key, Nil, Undef,
                    IF DeleteThrows(Cur, cell.key) THEN "throw" ELSE "ok", 0, c)
    /\ UNCHANGED <<defaultTtl, maxSize, now, held, collected>>

\* cache.getNotificationOnGC({ key, value, cleanup }) with a value the
\* caller references, not registered in this way before.
GetNotificationOnGC(key, value, cleanup) ==
    /\ value \in ObjVals => value \in held
    /\ [target |-> value, key |-> key, cleanup |-> cleanup] \notin notes
    /\ LET c == GetNotificationOnGCSt(Cur, key, value, cleanup)
       IN /\ Install(c)
          /\ Record("getNotificationOnGC", key, value, Undef,
                    IF GetNotificationOnGCThrows(key, value) THEN "throw" ELSE "ok", 0, c)
    /\ UNCHANGED <<defaultTtl, maxSize, now, held, collected>>

\* The notification of a cell of getNotificationOnGC is delivered, after its
\* target was reclaimed.
Notify(cell) ==
    /\ cell \in notes
    /\ cell.target \in collected
    /\ LET c == NotifySt(Cur, cell)
       IN /\ Install(c)
          /\ Record(IF cell.cleanup = "none" THEN "notified" ELSE "cleanup",
                    cell.key, cell.target, Undef,
                    IF cell.cleanup = "throws" THEN "throw" ELSE "ok", 0, c)
    /\ UNCHANGED <<defaultTtl, maxSize, now, held, collected>>

\* The registry created for a cleanup is reclaimed, and its cell with it:
\* nothing references that registry after getNotificationOnGC returned.
RegistryLost(cell) ==
    /\ cell \in notes
    /\ cell.cleanup # "none"
    /\ LET c == [Cur EXCEPT !.notes = @ \ {cell}]
       IN /\ Install(c)
          /\ Record("lost", Nil, Nil, Undef, "ok", 0, c)
    /\ UNCHANGED <<defaultTtl, maxSize, now, held, collected>>

\* The steps of a caller that uses the keys K, the values V and the ttl
\* options T, and those of the runtime (timers, clock, garbage collector).
Writes(K, V, T) == \E key \in K, value \in V, ttlOpt \in T : Set(key, value, ttlOpt)

Invalid(K, V) ==
    \E kv \in ({Nil} \X V) \cup (K \X {Nil}) : Set(kv[1], kv[2], Undef)

Reads(K, B) ==
    \/ \E key \in K, keep \in B : Get(key, keep)
    \/ \E key \in K : Has(key)
    \/ Size

Removes(K) ==
    \/ \E key \in K : Delete(key)
    \/ Clear

Rearms(K, T) == \E key \in K, ttl \in T \ {Undef} : UpdateTtl(key, ttl)

Clock(horizon) ==
    \/ \E tm \in timers : TimerFire(tm)
    \/ Tick(horizon)

Notifications(K, V, C) ==
    \/ \E key \in K, value \in V, cleanup \in C : GetNotificationOnGC(key, value, cleanup)
    \/ \E cell \in notes : Notify(cell)
    \/ \E cell \in notes : RegistryLost(cell)

Gc(V) ==
    \/ \E v \in V \cap ObjVals : DropRef(v)
    \/ \E v \in V \cap ObjVals : Collect(v)
    \/ \E cell \in registry : Finalize(cell)

\* A capacity-bounded cache without TTL, used with three keys (one of each
\* category) whose values the caller keeps referenced.
InitLRU == InitWith({Undef}, {1, 2}, {"v1"})

NextLRU ==
    \/ Writes(Keys, {"v1"}, {Undef})
    \/ Reads(Keys, {FALSE})
    \/ Removes(Keys)

SpecLRU == InitLRU /\ [][NextLRU]_vars

\* A cache with or without a default TTL, used with a string key and an
\* object key whose values the caller keeps referenced.
InitTTL == InitWith({Undef, MaxTtl}, {Undef}, {"v1"})

NextTTL ==
    \/ Writes({"s1", "o1"}, {"v1"}, {Undef, 0, 1})
    \/ Reads({"s1", "o1"}, {FALSE})
    \/ Removes({"s1", "o1"})
    \/ Rearms({"s1", "o1"}, {1})
    \/ Clock(MaxTicks)

SpecTTL == InitTTL /\ [][NextTTL]_vars

\* A cache with a default TTL, used with per-entry ttls below, equal to and
\* above the default.
InitOverride == InitWith({1, MaxTtl}, {Undef}, {"v1"})

NextOverride ==
    \/ Writes({"s1", "o1"}, {"v1"}, {Undef} \cup (1..MaxTtl))
    \/ Reads({"s1", "o1"}, {FALSE})
    \/ \E key \in {"s1", "o1"} : Delete(key)
    \/ Clock(MaxTicks)

SpecOverride == InitOverride /\ [][NextOverride]_vars

\* A capacity-bounded cache whose caller overwrites entries with a second
\* value, hands an object key an array or a primitive, and passes null.
InitStore == InitWith({Undef}, {2}, {"v1", "v2"})

NextStore ==
    \/ Writes(Keys, {"v1", "v2"}, {Undef})
    \/ Writes({"o1"}, ArrVals \cup PrimVals, {Undef})
    \/ Invalid({"s1"}, {"v1"})
    \/ Reads(Keys, {FALSE})
    \/ Removes(Keys)

SpecStore == InitStore /\ [][NextStore]_vars

\* A cache with an entry under an object key, whose caller asks to be told
\* of the collection of another value under the same key; the registry is an
\* engine's or one the host supplied.
InitNotify == Construct({Undef}, {Undef}, {"v1", "v2"}, BOOLEAN)

NextNotify ==
    \/ Writes({"o1"}, {"v1"}, {Undef})
    \/ Notifications({"o1"}, {"v2"}, Cleanups)
    \/ \E key \in {"o1"} : Get(key, FALSE)
    \/ Gc({"v1", "v2"})

SpecNotify == InitNotify /\ [][NextNotify]_vars

\* The cache of SpecNotify with a caller that also overwrites the entry with
\* a primitive value, a set that raises.
InitIdem == Construct({Undef}, {Undef}, {"v1", "v2"}, BOOLEAN)

NextIdem ==
    \/ Writes({"o1"}, {"v1"} \cup PrimVals, {Undef})
    \/ Notifications({"o1"}, {"v2"}, Cleanups)
    \/ \E key \in {"o1"} : Get(key, FALSE)
    \/ Gc({"v1", "v2"})

SpecIdem == InitIdem /\ [][NextIdem]_vars

\* The same, with a collector that eventually reclaims what is unreachable
\* and registries that eventually deliver the notifications they owe.
SpecNotifyFair ==
    /\ SpecNotify
    /\ WF_vars(\E v \in ObjVals : Collect(v))
    /\ WF_vars(\E cell \in notes : Notify(cell))

\* A cache constructed on hosts with and without each of the two primitives;
\* where construction threw there is no instance to call.
InitHost == ConstructOn({Undef}, {Undef}, {"v1", "v2"}, {TRUE}, SUBSET Primitives)

NextHost ==
    \/ Instance /\ Writes(Keys, {"v1", "v2"}, {Undef})
    \/ Instance /\ Reads(Keys, {FALSE})
    \/ Instance /\ Removes(Keys)

SpecHost == InitHost /\ [][NextHost]_vars

\* A cache whose caller overwrites entries that carry a ttl with another
\* value and another ttl, while timers run.
InitOverwrite == InitWith({Undef}, {Undef}, {"v1", "v2"})

NextOverwrite ==
    \/ Writes({"s1", "y1"}, {"v1", "v2"}, 1..MaxTtl)
    \/ \E key \in {"s1", "y1"} : Get(key, FALSE)
    \/ Clock(GcTicks)

SpecOverwrite == InitOverwrite /\ [][NextOverwrite]_vars

\* A cache on a host whose registry is the engine's, or one supplied by the
\* host whose unregister raises.
InitFault ==
    ConstructOn({Undef}, {Undef}, {"v1", "v2"}, {TRUE},
                {Primitives, Primitives \cup {FaultyUnregister}})

NextFault ==
    \/ Writes({"s1", "o1"}, {"v1", "v2"}, {Undef, 1})
    \/ \E key \in {"s1", "o1"} : Get(key, FALSE)
    \/ Removes({"s1", "o1"})
    \/ Clock(GcTicks)

SpecFault == InitFault /\ [][NextFault]_vars

\* A cache whose caller re-arms and inspects the TTL of its entries, with
\* ttls that are positive, zero and negative.
InitRearm == InitWith({Undef}, {Undef}, {"v1"})

NextRearm ==
    \/ Writes({"s1", "y1"}, {"v1"}, {Undef, 0 - 1, 1})
    \/ Rearms({"s1", "y1"}, {0 - 1, 0, 1, MaxTtl})
    \/ \E key \in {"s1", "y1"} : GetTtl(key)
    \/ \E key \in {"s1", "y1"} : Get(key, FALSE)
    \/ \E key \in {"s1", "y1"} : Delete(key)
    \/ Clock(GcTicks)

SpecRearm == InitRearm /\ [][NextRearm]_vars

\* A cache whose caller drops its values: an object key and a string key,
\* two object values, entries with and without a TTL.
InitGC == InitWith({Undef}, {Undef}, {"v1", "v2"})

NextGC ==
    \/ Writes({"s1"}, {"v1"}, {Undef})
    \/ Writes({"o1"}, {"v1", "v2"}, {Undef, 1})
    \/ Reads({"s1", "o1"}, BOOLEAN)
    \/ keys
    \/ Removes({"s1", "o1"})
    \/ Clock(GcTicks)
    \/ Gc({"v1", "v2"})

SpecGC == InitGC /\ [][NextGC]_vars

\* ------------------------------------------------------------------ claims
\* What has(key) and get(key) would return if called in the current state.
HasNow(key) == HasRes(Cur, key, now, collected)

GetNow(key) == GetRes(Cur, key, now, collected)

\* C1: with maxSize = N configured, the number of stored entries (string-key,
\* symbol-key and object-key mappings together) is at most N in every
\* reachable state.
C1_CapacityBound == Truthy(maxSize) => StoredCount(Cur) <= maxSize

\* C2: on a cache constructed with maxSize = N, after set on N+1 distinct new
\* keys and nothing else, exactly N entries are stored, the first-inserted
\* key is absent (has is false) and the other N keys are present.
C2_InsertBeyondCapacity ==
    (Truthy(maxSize) /\ onlySets /\ Len(setOrder) = maxSize + 1) =>
        /\ StoredCount(Cur) = maxSize
        /\ ~HasNow(setOrder[1])
        /\ \A i \in 2..Len(setOrder) : HasNow(setOrder[i])

\* C3: recency bump. With the cache at capacity, if k is the key touched last
\* (by a get that returned a value, or by set) and another stored key was
\* touched earlier, then a set of a new key leaves k stored: the key it
\* evicts was touched less recently than k.
C3_RecencyBump ==
    [][\A k \in Keys :
          ( /\ Truthy(maxSize)
            /\ StoredCount(Cur) = maxSize
            /\ Len(touched) >= 2
            /\ touched[Len(touched)] = k
            /\ last'.op = "set"
            /\ last'.key \notin StoredKeys(Cur) )
          => k \in StoredKeys(Cur)']_vars

Servable(k) ==
    /\ k \in StoredKeys(Cur)
    /\ LET entry == GetEntry(Cur, k)
       IN /\ entry.expiresAt # Undef => now <= entry.expiresAt
          /\ KeyType(k) = "object" => entry.weakRef \notin collected

PlainValues == {stringCache[k].value : k \in DOMAIN stringCache}
                   \cup {symbolCache[k].value : k \in DOMAIN symbolCache}

C7_NoResurrection ==
    \A k \in deadSeen : ~HasNow(k) /\ GetNow(k) = NotFound

\* After such a get, and with no set for the key since, has(k) was called and
\* answered false.
C7_Witness ==
    /\ last.op = "has" /\ last.key \in deadSeen /\ last.res = "false"
    /\ collected # {}

\* The timer the entry stored under k owns is armed for time due.
TimerDue(k, due) ==
    \E tm \in timers : tm.id = GetEntry(Cur, k).timeoutId /\ tm.key = k /\ tm.due = due

\* The entry set stored under k expires t after the set: while stored it
\* carries that timestamp and a timer due then; it is served before that
\* time and not-found after it.
ExpiresAfter(k, t) ==
    LET a == setBy[k]
    IN /\ HasEntry(Cur, k) =>
            GetEntry(Cur, k).expiresAt = a.at + t /\ TimerDue(k, a.at + t)
       /\ now < a.at + t => (GetNow(k) = a.val /\ HasNow(k))
       /\ now > a.at + t => (GetNow(k) = NotFound /\ ~HasNow(k))

\* The entry set stored under k never expires: it stays stored, without a
\* timestamp and without a timer, and is served.
NeverExpires(k) ==
    /\ HasEntry(Cur, k)
    /\ GetEntry(Cur, k).expiresAt = Undef
    /\ GetEntry(Cur, k).timeoutId = NoTimer
    /\ \A tm \in timers : tm.key # k
    /\ GetNow(k) = setBy[k].val /\ HasNow(k)

\* C8: an entry stored with { ttl: 0 } has no expiry timestamp and no timer,
\* also under a configured defaultTtl, and get returns its value however far
\* the clock has advanced.
C8_TtlZeroNoExpiry ==
    \A k \in DOMAIN setBy : setBy[k].opt = 0 => NeverExpires(k)

\* With a default ttl configured, an entry stored with { ttl: 0 } is read
\* later than the default would have allowed.
C8_Witness ==
    /\ Truthy(defaultTtl)
    /\ last.op = "get" /\ last.key \in DOMAIN setBy
    /\ setBy[last.key].opt = 0
    /\ now > setBy[last.key].at + defaultTtl
    /\ last.res = setBy[last.key].val

\* C9: with a default ttl D configured, an entry stored with a ttl t > 0
\* other than D expires t after the set, not D after it; every entry follows
\* its own ttl.
C9_OverridePrecedence ==
    Truthy(defaultTtl) =>
        \A k \in DOMAIN setBy :
            LET t == setBy[k].opt
            IN (t # Undef /\ t > 0 /\ t # defaultTtl) => ExpiresAfter(k, t)

\* Two entries stored at the same time, one with an override shorter than
\* the default and one without: the first is gone, the second still served.
C9_Witness ==
    /\ Truthy(defaultTtl)
    /\ DOMAIN setBy = {"s1", "o1"}
    /\ setBy["s1"].at = setBy["o1"].at
    /\ setBy["s1"].opt = 1 /\ setBy["o1"].opt = Undef
    /\ 1 < defaultTtl
    /\ now > setBy["s1"].at + 1
    /\ GetNow("s1") = NotFound /\ GetNow("o1") = setBy["o1"].val

\* C10: an entry stored without a ttl expires defaultTtl after the set when
\* a default is configured; with no default either, it never expires.
C10_DefaultTtlApplies ==
    \A k \in DOMAIN setBy :
        setBy[k].opt = Undef =>
            IF Truthy(defaultTtl) THEN ExpiresAfter(k, defaultTtl)
            ELSE NeverExpires(k)

\* get purged, past the default ttl, an entry that was stored without a ttl.
C10_Witness ==
    /\ Truthy(defaultTtl)
    /\ last.op = "get" /\ last.had /\ last.res = NotFound
    /\ last.key \in DOMAIN setBy
    /\ setBy[last.key].opt = Undef
    /\ now > setBy[last.key].at + defaultTtl

\* C11: set(k, v2) for a stored key k, in a cache holding exactly maxSize
\* entries, evicts no other key, leaves the number of entries unchanged,
\* makes k map to v2 and puts k at the most-recently-used end.
C11_OverwriteAtCapacity ==
    [][\A k \in Keys :
          ( /\ Truthy(maxSize) /\ StoredCount(Cur) = maxSize
            /\ k \in StoredKeys(Cur)
            /\ last'.op = "set" /\ last'.key = k /\ last'.res = "ok" )
          => /\ StoredKeys(Cur)' = StoredKeys(Cur)
             /\ k \in DOMAIN setBy' /\ GetNow(k)' = setBy'[k].val
             /\ k \in lruMap' /\ nodes'[lruTail].prev = k]_vars

\* C12: whenever set(k, v) returns without raising, for any key category and
\* any non-null value, get(k) right after returns v and has(k) is true.
C12_SetThenGet ==
    [][\A k \in Keys :
          (last'.op = "set" /\ last'.key = k /\ last'.res = "ok")
          => /\ k \in DOMAIN setBy'
             /\ GetNow(k)' = setBy'[k].val
             /\ HasNow(k)']_vars

\* C13: whenever set raises an error, the mappings, the LRU list, the timers
\* and the registrations are exactly as before the call.
C13_SetThrowsUnchanged ==
    [][(last'.op = "set" /\ last'.res = "throw") => Cur' = Cur]_vars

\* C14: after has(k) returns false for a key whose entry was stored (so it
\* was expired or dead), no entry, LRU node, timer or registration is left
\* for k.
C14_HasPurges ==
    [][\A k \in Keys :
          (last'.op = "has" /\ last'.key = k /\ last'.res = "false" /\ last'.had)
          => /\ k \notin StoredKeys(Cur)'
             /\ k \notin lruMap'
             /\ \A tm \in timers' : tm.key # k
             /\ \A cell \in registry' : cell.key # k]_vars

\* C15: delete(k) returns true exactly when an entry for k was stored, and
\* removes it; on an absent key it returns false and leaves the state
\* unchanged; right after a delete(k) that returned true it returns false;
\* after delete(k), get(k) is not-found.
C15_DeleteIdempotent ==
    [][\A k \in Keys :
          (last'.op = "delete" /\ last'.key = k)
          => /\ (last'.res = "true") <=> (k \in StoredKeys(Cur))
             /\ k \notin StoredKeys(Cur)'
             /\ GetNow(k)' = NotFound
             /\ k \notin StoredKeys(Cur) => Cur' = Cur
             /\ (last.op = "delete" /\ last.key = k /\ last.res = "true")
                    => last'.res = "false"]_vars

\* C16: right after clear() the three mappings and the LRU list are empty,
\* size is 0, no timer is armed and no registration is active (so no timer
\* callback or notification can follow), and get finds no key.
C16_ClearEmpties ==
    last.op = "clear" =>
        /\ stringCache = EmptyMap /\ symbolCache = EmptyMap /\ cache = EmptyMap
        /\ lruMap = {}
        /\ nodes[lruHead].next = lruTail /\ nodes[lruTail].prev = lruHead
        /\ currentSize = 0 /\ SizeRes(Cur, now, collected) = 0
        /\ timers = {} /\ registry = {}
        /\ \A k \in Keys : GetNow(k) = NotFound /\ ~HasNow(k)

\* clear() removed two entries, one of them under an object key.
C16_Witness ==
    last.op = "clear" /\ last.n = 2 /\ StoredKeys(Cur) = {}

\* C17: size read and keys() called back to back, in either order, agree:
\* size equals the length of the array, and the array lists no key twice.
C17_SizeKeysConsistent ==
    LET sizeFirst == SizeSt(Cur, now, collected)
        keysFirst == KeysSt(Cur, now, collected)
        listed == KeysRes(Cur, now, collected)
    IN /\ SizeRes(Cur, now, collected) = Len(KeysRes(sizeFirst, now, collected))
       /\ Len(listed) = SizeRes(keysFirst, now, collected)
       /\ \A i, j \in 1..Len(listed) : listed[i] = listed[j] => i = j

\* keys() has just listed one key after purging a dead or expired entry, and
\* size now reads 1.
C17_Witness ==
    /\ last.op = "keys" /\ last.n = 1
    /\ DOMAIN setBy = {"s1", "o1"}
    /\ StoredCount(Cur) = 1
    /\ SizeRes(Cur, now, collected) = 1

\* C18: neither a getNotificationOnGC call nor the delivery of its
\* notification, with or without a cleanup, adds, removes or changes a cache
\* entry, an LRU node or a timer.
C18_NotificationIndependent ==
    [][last'.op \in {"getNotificationOnGC", "notified", "cleanup"} =>
          UNCHANGED <<stringCache, symbolCache, cache, nodes, lruMap, currentSize,
                      timers, registry>>]_vars

\* C19: an exception thrown by a cleanup callback during a notification
\* never leaves the notification callback.
C19_CleanupExceptionCaught == ~uncaught

\* C20: once a value registered with a cleanup is no longer referenced by the
\* caller it is collectable, and its cleanup is eventually invoked, never
\* before the value was reclaimed.
C20_CleanupEventuallyOnce ==
    /\ [](\A cell \in notes :
            (cell.cleanup # "none" /\ cell.target \notin held /\ cell.target \notin collected)
                => Collectable(Cur, cell.target, held, collected))
    /\ [](\A kv \in cleaned : kv[2] \in collected)
    /\ \A k \in ObjKeys, v \in ObjVals :
          (\E cell \in notes : /\ cell.key = k /\ cell.target = v
                                /\ cell.cleanup # "none" /\ v \notin held)
              ~> (<<k, v>> \in cleaned)

TimersOf(k) == {tm \in timers : tm.key = k}

\* C22: updateTtl(k, t) at time T returns true exactly when an entry for k
\* is stored. Then (t >= 0) the entry's expiry is T + t and the one timer
\* armed for k is the entry's own, due at T + t; the value, the other
\* entries, the recency order and the registrations are unchanged. For an
\* absent key it returns false and leaves the state unchanged.
C22_UpdateTtl ==
    [][\A k \in Keys :
          (last'.op = "updateTtl" /\ last'.key = k /\ last'.n >= 0) =>
              IF k \in StoredKeys(Cur)
              THEN /\ last'.res = "true"
                   /\ StoredKeys(Cur)' = StoredKeys(Cur)
                   /\ GetEntry(Cur, k)'.expiresAt = now + last'.n
                   /\ TimersOf(k)' = {[id |-> GetEntry(Cur, k)'.timeoutId, key |-> k,
                                         due |-> now + last'.n]}
                   /\ \A tm \in TimersOf(k) : tm \in timers' => tm.id = GetEntry(Cur, k)'.timeoutId
                   /\ [GetEntry(Cur, k)' EXCEPT !.expiresAt = 0, !.timeoutId = NoTimer]
                          = [GetEntry(Cur, k) EXCEPT !.expiresAt = 0, !.timeoutId = NoTimer]
                   /\ \A j \in StoredKeys(Cur) \ {k} : GetEntry(Cur, j)' = GetEntry(Cur, j)
                   /\ timers' \ TimersOf(k)' = timers \ TimersOf(k)
                   /\ UNCHANGED <<nodes, lruMap, currentSize, registry>>
              ELSE last'.res = "false" /\ Cur' = Cur]_vars

\* updateTtl has just re-armed an entry whose earlier timer was still
\* pending, while another entry keeps its own timer.
C22_Witness ==
    /\ last.op = "updateTtl" /\ last.res = "true" /\ last.had /\ last.n = MaxTtl
    /\ Cardinality(TimersOf(last.key)) = 1
    /\ \E j \in StoredKeys(Cur) \ {last.key} : TimersOf(j) # {}
    /\ now > Epoch

C24_FatalAtConstruction ==
    /\ host # Primitives => ~Instance
    /\ (last.op = "set" /\ last.res = "throw") => host = Primitives

RECURSIVE Chain(_, _)
\* The keys linked in the LRU list from node n up to the tail sentinel.
Chain(c, n) ==
    IF n = lruTail \/ n = Null THEN <<>>
    ELSE <<n>> \o Chain(c, c.nodes[n].next)

\* C25: the keys the LRU list and its index hold are exactly the keys stored
\* in the three mappings, each stored key is in one mapping only, and the
\* size of the index is the sum of the sizes of the mappings.
C25_LedgerStoreAgreement ==
    /\ lruMap = StoredKeys(Cur)
    /\ Range(Chain(Cur, nodes[lruHead].next)) = StoredKeys(Cur)
    /\ \A k \in StoredKeys(Cur) :
          Cardinality({m \in {"s", "y", "o"} :
                          \/ m = "s" /\ k \in DOMAIN stringCache
                          \/ m = "y" /\ k \in DOMAIN symbolCache
                          \/ m = "o" /\ k \in DOMAIN cache}) = 1
    /\ Cardinality(lruMap) = StoredCount(Cur)

\* C26: at most one timer is armed per key, and every armed timer is the
\* one recorded in a stored entry that has an expiry; after delete(k),
\* whatever sets preceded it, no timer for k is armed and k is in neither
\* the LRU index nor a mapping.
C26_TimerOwnership ==
    /\ [](/\ \A k \in Keys : Cardinality(TimersOf(k)) <= 1
          /\ \A tm \in timers :
                /\ HasEntry(Cur, tm.key)
                /\ GetEntry(Cur, tm.key).timeoutId = tm.id
                /\ GetEntry(Cur, tm.key).expiresAt # Undef)
    /\ [][\A k \in Keys :
            (last'.op = "delete" /\ last'.key = k) =>
                /\ TimersOf(k)' = {}
                /\ k \notin lruMap' /\ k \notin StoredKeys(Cur)'
                /\ timers' = timers \ TimersOf(k)]_vars

\* An entry with a pending timer was overwritten after the clock had moved:
\* one timer is armed for the key, the new entry's.
C26_Witness ==
    /\ last.op = "set" /\ last.had /\ last.res = "ok"
    /\ now > Epoch
    /\ last.key \in lruMap
    /\ Cardinality(TimersOf(last.key)) = 1
    /\ \E tm \in TimersOf(last.key) : tm.due > now

\* C27: an entry stored by set(k, v2, {ttl: b}) at time T2 over an entry with
\* another value and its own expiry is served at every time < T2 + b, also
\* past the expiry of the entry it replaced, and is not-found after T2 + b;
\* a timer callback that removes an entry is the timer of that entry.
C27_OverwriteRebuildsTtl ==
    /\ [](\A k \in DOMAIN setBy :
            LET a == setBy[k]
            IN (a.over # Undef /\ a.opt # Undef /\ a.opt > 0) =>
                  /\ now < a.at + a.opt => (GetNow(k) = a.val /\ HasNow(k))
                  /\ now > a.at + a.opt => (GetNow(k) = NotFound /\ ~HasNow(k)))
    /\ [][\A k \in Keys :
            (last'.op = "timer" /\ last'.key = k /\ HasEntry(Cur, k)) =>
                \E tm \in timers \ timers' :
                    /\ tm.id = GetEntry(Cur, k).timeoutId
                    /\ tm.due = GetEntry(Cur, k).expiresAt]_vars

\* The second entry is read, and served, after the time at which the entry
\* it replaced would have expired.
C27_Witness ==
    /\ last.op = "get" /\ last.key \in DOMAIN setBy
    /\ setBy[last.key].over # Undef
    /\ now > setBy[last.key].over
    /\ now < setBy[last.key].at + setBy[last.key].opt
    /\ last.res = setBy[last.key].val

\* C28: the registrations set made and that are still active are exactly
\* those of the stored entries: every cell carries the token of the entry
\* stored under its key and targets that entry's value, every object-key
\* entry and every symbol-key entry with an object value has its cell, and
\* a key without an entry has none, whichever way its entry was removed.
C28_RegistrationOwnership ==
    /\ \A cell \in registry :
          /\ KeyType(cell.key) # "string"
          /\ HasEntry(Cur, cell.key)
          /\ GetEntry(Cur, cell.key).unregisterToken = cell.token
          /\ cell.target = (IF KeyType(cell.key) = "object" THEN cache[cell.key].weakRef
                                                             ELSE symbolCache[cell.key].value)
    /\ \A k \in DOMAIN cache :
          \E cell \in registry : cell.key = k /\ cell.token = cache[k].unregisterToken
    /\ \A k \in DOMAIN symbolCache : IsObjectValue(symbolCache[k].value) =>
          \E cell \in registry : cell.key = k /\ cell.token = symbolCache[k].unregisterToken
    /\ \A k \in Keys : Cardinality({cell \in registry : cell.key = k}) <= 1

\* A TTL timer has just removed an object-key entry, and its registration
\* went with it.
C28_Witness ==
    /\ last.op = "timer" /\ last.had /\ last.key \in ObjKeys
    /\ last.key \notin DOMAIN cache
    /\ registry = {}

\* The ttl passed to the set or updateTtl call that the last step was, and
\* Undef for a set without the option.
PassedTtl == IF last.op = "updateTtl" THEN last.n ELSE setBy[last.key].opt

\* C29: whenever set or updateTtl stores an expiry timestamp on an entry, it
\* is strictly greater than the time of the call; and a ttl <= 0 passed to
\* set or updateTtl arms no timer and leaves the entry without expiry.
C29_ExpiryInFuture ==
    [][\A k \in Keys :
          ( /\ last'.key = k
            /\ \/ last'.op = "set" /\ last'.res = "ok" /\ k \in DOMAIN setBy'
               \/ last'.op = "updateTtl" /\ last'.res = "true" )
          => /\ GetEntry(Cur, k)'.expiresAt # Undef => GetEntry(Cur, k)'.expiresAt > now
             /\ (PassedTtl' # Undef /\ PassedTtl' <= 0) =>
                    /\ GetEntry(Cur, k)'.expiresAt = Undef
                    /\ GetEntry(Cur, k)'.timeoutId = NoTimer
                    /\ TimersOf(k)' = {}]_vars

\* C30: right after size was read or keys() was called, no stored entry is
\* expired or has a dead weak handle; the entries removed for it are in no
\* mapping and not in the LRU index, and leave no timer and no registration;
\* and keys() then lists exactly the keys for which has answers true.
C30_SweepOnSizeAndKeys ==
    [][last'.op \in {"size", "keys"} =>
          /\ DeadKeys(Cur, now, collected)' = {}
          /\ \A k \in DeadKeys(Cur, now, collected) :
                /\ k \notin StoredKeys(Cur)' /\ k \notin lruMap'
                /\ TimersOf(k)' = {}
                /\ \A cell \in registry' : cell.key # k
          /\ StoredKeys(Cur)' = StoredKeys(Cur) \ DeadKeys(Cur, now, collected)
          /\ Range(KeysRes(Cur, now, collected)) = {k \in Keys : HasNow(k)'}
          /\ Range(KeysRes(Cur, now, collected)') = {k \in Keys : HasNow(k)'}
          /\ last'.n = Cardinality({k \in Keys : HasNow(k)'})]_vars

\* size has just read 1: of the two entries that were set, the one under
\* the object key is gone and a value has been reclaimed.
C30_Witness ==
    /\ last.op = "size" /\ last.n = 1
    /\ DOMAIN setBy = {"s1", "o1"}
    /\ StoredKeys(Cur) = {"s1"}
    /\ collected # {}

\* C31: also where the registry's unregister raises, delete, clear, an
\* overwriting set and the TTL timer callback raise nothing, and the entry
\* they remove is then in no mapping and not in the LRU index.
C31_UnregisterFailureContained ==
    [][/\ last'.op \in {"delete", "timer"} =>
            /\ last'.res # "throw"
            /\ last'.key \notin StoredKeys(Cur)' /\ last'.key \notin lruMap'
       /\ last'.op = "clear" =>
            /\ last'.res # "throw"
            /\ StoredKeys(Cur)' = {} /\ lruMap' = {}
       /\ (last'.op = "set" /\ last'.had) =>
            /\ last'.res # "throw"
            /\ last'.key \in DOMAIN setBy']_vars

\* C32: a TTL timer callback or a collection notification handler that runs
\* for a key with no stored entry leaves the whole cache state unchanged,
\* the entry count included, and raises nothing.
C32_IdempotentDestruction ==
    [][(last'.op \in {"timer", "finalize", "notified"} /\ ~last'.had) =>
          /\ last'.res # "throw"
          /\ UNCHANGED <<stringCache, symbolCache, cache, nodes, lruMap, currentSize,
                         timers, registry>>]_vars

\* A cache whose entries are only written, re-armed and removed, never read:
\* s1 and o1 with and without a ttl, a default ttl or none. Writes stop
\* early enough for the timer they arm to come due within the horizon.
InitExpiry == InitWith({Undef, MaxTtl}, {Undef}, {"v1"})

NextExpiry ==
    \/ (now + MaxTtl <= Epoch + MaxTicks /\ Writes({"s1", "o1"}, {"v1"}, {Undef, 1}))
    \/ (now + 1 <= Epoch + MaxTicks /\ Rearms({"s1", "o1"}, {1}))
    \/ Removes({"s1", "o1"})
    \/ Clock(MaxTicks)

SpecExpiry == InitExpiry /\ [][NextExpiry]_vars

\* Time passes and the event loop runs the callback of a timer that is due.
SpecExpiryFair ==
    /\ SpecExpiry
    /\ WF_vars(Tick(MaxTicks))
    /\ WF_vars(\E tm \in timers : TimerFire(tm))

\* The last call was a set or an updateTtl of the key.
JustWritten(k) == last.op \in {"set", "updateTtl"} /\ last.key = k

\* The key has no entry with an expiry: none at all, and then no node in the
\* ledger either, or one stored without a ttl.
TtlEntryGone(k) ==
    IF HasEntry(Cur, k) THEN GetEntry(Cur, k).expiresAt = Undef ELSE k \notin lruMap

\* C33: with timers firing fairly, an entry stored with a ttl > 0 that no
\* later set overwrites and no later updateTtl re-arms is eventually removed
\* from its mapping and from the ledger, without any get, has, size or keys
\* call: unless the key is written again and again, it ends without an
\* expiring entry.
C33_TimerEventuallyRemoves ==
    /\ ([]<>JustWritten("s1")) \/ <>[]TtlEntryGone("s1")
    /\ ([]<>JustWritten("o1")) \/ <>[]TtlEntryGone("o1")

\* A timer callback removed an entry that was stored with a ttl.
C33_Witness ==
    /\ last.op = "timer" /\ last.had /\ last.res = "ok"
    /\ ~HasEntry(Cur, last.key) /\ last.key \notin lruMap
    /\ last.key \in DOMAIN setBy /\ setBy[last.key].opt = 1

\* C34: once get(k) or has(k) has reported not-found for k because its
\* expiry passed, get(k) and has(k) report not-found in every later state
\* until set is called for k; no updateTtl in between makes k live again.
C34_ExpiredStaysAbsent ==
    \A k \in expiredSeen : ~HasNow(k) /\ GetNow(k) = NotFound

\* A cache read through get, has and size while the clock and the collector
\* run: s1 and o1 stored without a ttl, with a ttl of one millisecond and
\* with the ttl -Date.now(), whose expiry timestamp is 0.
InitAgree == InitWith({Undef}, {Undef}, {"v1"})

NextAgree ==
    \/ Writes({"s1", "o1"}, {"v1"}, {Undef, 1, 0 - Epoch})
    \/ Reads({"s1", "o1"}, {FALSE})
    \/ Clock(GcTicks)
    \/ Gc({"v1"})

SpecAgree == InitAgree /\ [][NextAgree]_vars

\* C35: in every state and for every key, has(k) is true exactly when
\* get(k), called in that state, would return a value: an entry is stored,
\* it has not expired and its weak handle resolves.
C35_HasGetAgree == \A k \in Keys : HasNow(k) <=> (GetNow(k) # NotFound)

\* C36: after set(k, v1) was overwritten by set(k, v2), the collection of v1
\* and the registry's deliveries never remove or alter the entry holding v2
\* while v2 is not reclaimed: the overwrite cancelled the registration for
\* v1, so no cell of k targets v1.
C36_StaleCollectionHarmless ==
    [][\A k \in DOMAIN setBy :
          (/\ setBy[k].prev # Nil
           /\ HasEntry(Cur, k)
           /\ last'.op \in {"collect", "finalize"}
           /\ setBy[k].val \notin collected')
          => /\ HasEntry(Cur, k)'
             /\ GetEntry(Cur, k)' = GetEntry(Cur, k)
             /\ ~\E cell \in registry : cell.key = k /\ cell.target = setBy[k].prev]_vars

\* The value an overwrite replaced has just been reclaimed and the entry
\* holds the value that replaced it.
C36_Witness ==
    /\ last.op = "collect"
    /\ \E k \in ObjKeys \cap DOMAIN setBy :
          /\ setBy[k].prev \in collected
          /\ k \in DOMAIN cache
          /\ cache[k].weakRef = setBy[k].val
          /\ setBy[k].val \notin collected

\* A cache without capacity used with one key of each category, stored with
\* and without a ttl, read, deleted and expiring.
InitFrame == InitWith({Undef}, {Undef}, {"v1"})

NextFrame ==
    \/ Writes(Keys, {"v1"}, {Undef, 1})
    \/ \E key \in Keys : Get(key, FALSE)
    \/ \E key \in Keys : Delete(key)
    \/ Clock(1)

SpecFrame == InitFrame /\ [][NextFrame]_vars

\* C37: delete(k) affects only k: every other key keeps its entry with its
\* value and expiry timestamp, its armed timer, its registration and its
\* node, and the remaining keys keep their relative order in the LRU list.
C37_DeleteFrame ==
    [][last'.op = "delete" =>
          /\ \A j \in Keys \ {last'.key} :
                /\ HasEntry(Cur, j)' = HasEntry(Cur, j)
                /\ HasEntry(Cur, j) => GetEntry(Cur, j)' = GetEntry(Cur, j)
                /\ {tm \in timers' : tm.key = j} = {tm \in timers : tm.key = j}
                /\ {cell \in registry' : cell.key = j} = {cell \in registry : cell.key = j}
                /\ (j \in lruMap') = (j \in lruMap)
          /\ Chain(Cur, nodes[lruHead].next)'
                = Without(Chain(Cur, nodes[lruHead].next), {last'.key})]_vars

\* delete has just removed one of three stored keys, the two others staying
\* on the LRU list, one of them with its timer armed and its registration
\* active.
C37_Witness ==
    /\ last.op = "delete" /\ last.had /\ last.res = "true"
    /\ Len(Chain(Cur, nodes[lruHead].next)) = 2
    /\ Keys \ {last.key} \subseteq StoredKeys(Cur)
    /\ \E j \in Keys \ {last.key} : TimersOf(j) # {} /\ (\E cell \in registry : cell.key = j)

RECURSIVE ChainBack(_, _, _)
\* The keys linked in the LRU list from node n back to the head sentinel,
\* following prev; seen stops a walk that comes round.
ChainBack(c, n, seen) ==
    IF n = lruHead \/ n = Null \/ n \in seen THEN <<>>
    ELSE <<n>> \o ChainBack(c, c.nodes[n].prev, seen \cup {n})

\* The node the walk from the head sentinel ends at: the last of the chain,
\* or the head itself when nothing is linked behind it.
LastOf(chain) == IF chain = <<>> THEN lruHead ELSE chain[Len(chain)]

\* C38: the LRU list is well formed in every reachable state: following next
\* from the head sentinel reaches the tail sentinel through each indexed node
\* exactly once, following prev from the tail sentinel gives the reverse
\* order and ends at the head sentinel, the index holds exactly the nodes on
\* the list, the sentinels are not indexed, and an eviction from the empty
\* list changes nothing.
C38_ListWellFormed ==
    LET fwd == Chain(Cur, nodes[lruHead].next)
        back == ChainBack(Cur, nodes[lruTail].prev, {})
    IN /\ nodes[LastOf(fwd)].next = lruTail
       /\ Cardinality(Range(fwd)) = Len(fwd)
       /\ Range(fwd) = lruMap
       /\ Len(back) = Len(fwd)
       /\ \A i \in 1..Len(fwd) : back[i] = fwd[Len(fwd) + 1 - i]
       /\ nodes[IF back = <<>> THEN lruTail ELSE back[Len(back)]].prev = lruHead
       /\ lruHead \notin lruMap /\ lruTail \notin lruMap
       /\ lruHead \notin StoredKeys(Cur) /\ lruTail \notin StoredKeys(Cur)
       /\ fwd = <<>> => EvictLRU(Cur) = Cur

\* A get has just moved the first of two linked nodes behind the other.
C38_Witness ==
    /\ last.op = "get" /\ last.res # NotFound
    /\ Len(Chain(Cur, nodes[lruHead].next)) = 2
    /\ Chain(Cur, nodes[lruHead].next)[2] = last.key
    /\ touched # <<>> /\ touched[Len(touched)] = last.key

\* getStats()
GetStats(c) ==
    [size |-> c.currentSize,
     stringItems |-> Cardinality(DOMAIN c.stringCache),
     objectItems |-> Cardinality(DOMAIN c.cache),
     symbolItems |-> Cardinality(DOMAIN c.symbolCache),
     lruNodes |-> Cardinality(c.lruMap)]

\* C39: the entry counter the capacity check reads is never negative and in
\* every reachable state equals the sizes of the string-key, symbol-key and
\* object-key mappings together, as getStats reports them.
C39_CounterIsStoredCount ==
    /\ currentSize >= 0
    /\ GetStats(Cur).size
          = GetStats(Cur).stringItems + GetStats(Cur).symbolItems + GetStats(Cur).objectItems

\* A set has just raised after tearing down the entry it was to replace,
\* another entry staying stored.
C39_Witness ==
    /\ last.op = "set" /\ last.had /\ last.res = "throw"
    /\ last.key \notin StoredKeys(Cur)
    /\ currentSize = 1

====
